---------------------------- MODULE Spec2Model ----------------------------
(***************************************************************************)
(* The chat gateway of src/server.js and of its serverless variant         *)
(* src/unnamed/part_000: an express application whose middleware chain is  *)
(* cors -> express.json -> rate limiter -> routes -> error handler, and    *)
(* whose POST /api/chat handler validates the body, awaits one call of     *)
(* hf.textGeneration and answers with a JSON envelope.                     *)
(*                                                                         *)
(* A request lives in a slot r of Reqs.  Everything the event loop runs    *)
(* without yielding is one action: Arrive runs the middleware chain, the   *)
(* route and the handler up to its await; Resolve and Reject run the       *)
(* handler's continuation once the upstream promise settles.               *)
(***************************************************************************)
EXTENDS Naturals, Sequences, FiniteSets

\* ------------------------------------------------------------------ bounds
\* Request slots (requests that can be in flight at once).
MaxReqs == 2
\* Cap of the limiter's hit counter, which the library lets grow without bound
\* inside a window; above `max` so that rejected requests are reached.
MaxHits == 102

Reqs == 1..MaxReqs
Clients == {"c1"}

\* ------------------------------------------------------- program constants
\* rateLimit({ windowMs: 15 * 60 * 1000, max: 100 })
max == 100

ModelId == "deepseek-ai/deepseek-coder-33b-instruct"

GenerationParameters ==
    [max_new_tokens |-> 1000, temperature |-> "0.7", return_full_text |-> FALSE,
     do_sample |-> TRUE, top_p |-> "0.95", top_k |-> 50,
     repetition_penalty |-> "1.1", length_penalty |-> "1.0",
     stop |-> <<"</s>", "Human:", "Assistant:">>]

ValidationMsg == "Message is required and must be a string"
ProcessingMsg == "Error processing request"
NoTextMsg == "No response generated from the model"
RouteNotFoundMsg == "Route not found"
GlobalErrorMsg == "Something went wrong!"

\* The two entry points of the repository.
Entries == {"server.js", "part_000"}

\* --------------------------------------------------------- JavaScript values
\* A value is [t |-> its typeof-like tag, v |-> its payload as a sequence of
\* characters], so that emptiness and whitespace are computed, not assumed.
JUndefined == [t |-> "undefined", v |-> <<>>]
JNull == [t |-> "null", v |-> <<>>]
JNumber(digits) == [t |-> "number", v |-> digits]
JString(chars) == [t |-> "string", v |-> chars]

\* !x
Falsy(x) ==
    \/ x.t \in {"undefined", "null"}
    \/ x.t = "string" /\ Len(x.v) = 0
    \/ x.t = "number" /\ x.v \in {<<"0">>, <<"N", "a", "N">>}

\* typeof x === 'string'
TypeofString(x) == x.t = "string"

\* ------------------------------------------------------------------ inputs
Messages ==
    {JUndefined, JNull, JNumber(<<"4", "2">>), JNumber(<<"0">>),
     JString(<<>>), JString(<<" ", " ">>), JString(<<"h", "i">>)}

ImageUrls == {JUndefined, JString(<<"u">>), JNumber(<<"7">>)}

Bodies == [message : Messages, image_url : ImageUrls]

EmptyBody == [message |-> JUndefined, image_url |-> JUndefined]

Paths == {"/health", "/api/chat", "/nope"}

\* A GET or OPTIONS request carries no body (express.json leaves req.body = {});
\* a POST carries a JSON body that parses (json = "ok") or does not ("bad").
Requests ==
    [method : {"GET", "OPTIONS"}, path : Paths, client : Clients,
     json : {"ok"}, body : {EmptyBody}]
    \cup
    [method : {"POST"}, path : Paths, client : Clients,
     json : {"ok"}, body : Bodies]
    \cup
    [method : {"POST"}, path : Paths, client : Clients,
     json : {"bad"}, body : {EmptyBody}]

\* What hf.textGeneration can resolve with: null, or an object whose
\* generated_text is missing, empty or a text.
Generated ==
    [null : {TRUE}, generated_text : {JUndefined}]
    \cup
    [null : {FALSE},
     generated_text : {JUndefined, JString(<<>>), JString(<<"t", "1">>),
                       JString(<<"t", "2">>)}]

\* What it can reject with.
Errors == [name : {"Error", "ValidationError"}, message : {"rate limited", "boom"}]

\* The inputs of the concurrent specification: chat requests only.
ConcRequests ==
    [method : {"POST"}, path : {"/api/chat"}, client : Clients, json : {"ok"},
     body : [message : {JUndefined, JString(<<>>), JString(<<" ", " ">>),
                        JString(<<"h", "i">>)},
             image_url : ImageUrls]]

ConcGenerated ==
    {g \in Generated : g.generated_text # JUndefined}

ConcErrors ==
    {[name |-> "Error", message |-> "rate limited"],
     [name |-> "ValidationError", message |-> "boom"]}

\* ------------------------------------------------------------------- state
VARIABLES
    entry,      \* which entry point is running
    hits,       \* the limiter's store: requests counted per client key in the window
    pc,         \* per slot: "idle" | "invoking" (awaiting hf.textGeneration) | "responded"
    req,        \* per slot: the request
    sentArgs,   \* per slot: the arguments of each hf.textGeneration call made for it
    outcome,    \* per slot: how the awaited promise settled
    res,        \* per slot: the response sent
    sent        \* per slot: how many responses were sent

vars == <<entry, hits, pc, req, sentArgs, outcome, res, sent>>

None == "<none>"

NoReq == [method |-> None, path |-> None, client |-> None, json |-> None,
          body |-> EmptyBody]

Pending == [kind |-> "pending", gen |-> [null |-> TRUE, generated_text |-> JUndefined],
            error |-> [name |-> None, message |-> None]]

Resolved(gen) == [kind |-> "resolved", gen |-> gen,
                  error |-> [name |-> None, message |-> None]]

Rejected(e) == [kind |-> "rejected",
                gen |-> [null |-> TRUE, generated_text |-> JUndefined], error |-> e]

\* A response: who sent it, the status, and the JSON body's fields (None or
\* JUndefined for a field the body does not have).
Response(by, status, error, details, state, message, model, timestamp) ==
    [by |-> by, status |-> status, error |-> error, details |-> details,
     state |-> state, message |-> message, model |-> model, timestamp |-> timestamp]

NoRes == Response(None, 0, None, None, None, JUndefined, None, FALSE)

\* ------------------------------------------------------------ the responses
\* cors(): an OPTIONS request is a preflight, answered 204 by the middleware.
PreflightResponse == Response("cors", 204, None, None, None, JUndefined, None, FALSE)

\* app.use((err, req, res, next) => ...): the global error handler.
ErrorHandlerResponse(err) ==
    Response("errorHandler", 500, GlobalErrorMsg, err.message, None, JUndefined, None, TRUE)

\* What express.json passes to next() for a body that does not parse.
JsonParseError == [name |-> "SyntaxError", message |-> "Unexpected token"]

\* The limiter's answer to a request over the limit.
LimiterResponse == Response("limiter", 429, None, None, None, JUndefined, None, FALSE)

\* app.get('/health')
HealthResponse == Response("health", 200, None, None, "ok", JUndefined, None, TRUE)

\* app.all('*') of part_000
NotFoundResponse ==
    Response("catchAll", 404, RouteNotFoundMsg, None, None, JUndefined, None, TRUE)

\* server.js has no catch-all route: express's own final handler answers 404
\* with an HTML page, not with a JSON body.
FinalhandlerResponse ==
    Response("finalhandler", 404, None, None, None, JUndefined, None, FALSE)

\* -------------------------------------------------------- the chat handler
\* A variant of the validation that drops the typeof test.
InvalidMessageFalsyOnly(message) == Falsy(message)

\* if (!message || typeof message !== 'string')
InvalidMessage(message) == Falsy(message) \/ ~TypeofString(message)

ValidationResponse ==
    Response("chat", 400, ValidationMsg, None, None, JUndefined, None, TRUE)

\* server.js only: the content array, built and then not used by the call.
Content(body) ==
    IF ~Falsy(body.image_url) /\ TypeofString(body.image_url)
    THEN <<[type |-> "text", text |-> body.message],
           [type |-> "image_url", text |-> body.image_url]>>
    ELSE <<[type |-> "text", text |-> body.message]>>

\* A variant of the call that forwards the content array instead of the message.
CallArgsWithContent(body) ==
    [model |-> ModelId, inputs |-> Content(body), parameters |-> GenerationParameters]

\* The argument of hf.textGeneration.
CallArgs(body) ==
    [model |-> ModelId, inputs |-> body.message, parameters |-> GenerationParameters]

\* A variant of the check for text that tests the result only, not its field.
NoTextNullOnly(gen) == gen.null

\* if (!generated || !generated.generated_text)
NoText(gen) == gen.null \/ Falsy(gen.generated_text)

\* A variant of the success response that names another model than the call's.
SuccessResponseOtherModel(gen) ==
    Response("chat", 200, None, None, None, gen.generated_text,
             "deepseek-ai/deepseek-coder-6.7b-instruct", TRUE)

\* res.json({ response: { message, model, timestamp } })
SuccessResponse(gen) ==
    Response("chat", 200, None, None, None, gen.generated_text, ModelId, TRUE)

\* server.js: error.name === 'ValidationError' ? 400 : 500;  part_000: 500
CatchStatus(e) ==
    IF entry = "server.js" /\ e.name = "ValidationError" THEN 400 ELSE 500

\* A variant of the catch block that hides the error's message.
CatchResponseNoDetails(e) ==
    Response("chat", CatchStatus(e), ProcessingMsg, None, None, JUndefined, None, TRUE)

\* The catch block's response.
CatchResponse(e) ==
    Response("chat", CatchStatus(e), ProcessingMsg, e.message, None, JUndefined, None, TRUE)

\* new Error('No response generated from the model')
NoTextError == [name |-> "Error", message |-> NoTextMsg]

\* ----------------------------------------------------- the middleware chain
\* A request reaches the limiter when cors and express.json let it through.
ReachesLimiter(q) == q.method # "OPTIONS" /\ q.json = "ok"

\* A variant of the limiter that rejects the max-th request already.
LimitedAtMax(n) == n >= max

\* The limiter rejects a request whose count in the window exceeds max.
Limited(n) == n > max

\* What the synchronous part of the chat handler does: answer, or await.
Done(response) == [await |-> FALSE, res |-> response]
Await == [await |-> TRUE, res |-> NoRes]

ChatHandler(body) ==
    IF InvalidMessage(body.message) THEN Done(ValidationResponse) ELSE Await

\* Request q is a GET /health.
IsHealth(q) == q.method = "GET" /\ q.path = "/health"

\* The route table, in the order the routes are registered.
Route(q) ==
    IF IsHealth(q) THEN Done(HealthResponse)
    ELSE IF q.method = "POST" /\ q.path = "/api/chat" THEN ChatHandler(q.body)
    ELSE IF entry = "part_000" THEN Done(NotFoundResponse)
    ELSE Done(FinalhandlerResponse)

\* app.use(cors()); app.use(express.json()); app.use(limiter); the routes.
\* n is the request's count in the limiter's window.
Pipeline(q, n) ==
    IF q.method = "OPTIONS" THEN Done(PreflightResponse)
    ELSE IF q.json = "bad" THEN Done(ErrorHandlerResponse(JsonParseError))
    ELSE IF Limited(n) THEN Done(LimiterResponse)
    ELSE Route(q)

\* ----------------------------------------------------------------- actions
Init ==
    /\ entry \in Entries
    /\ hits = [c \in Clients |-> 0]
    /\ pc = [r \in Reqs |-> "idle"]
    /\ req = [r \in Reqs |-> NoReq]
    /\ sentArgs = [r \in Reqs |-> <<>>]
    /\ outcome = [r \in Reqs |-> Pending]
    /\ res = [r \in Reqs |-> NoRes]
    /\ sent = [r \in Reqs |-> 0]

\* Request q arrives in slot r and runs until it is answered or awaits.
Arrive(r, q) ==
    /\ pc[r] = "idle"
    /\ ReachesLimiter(q) => hits[q.client] < MaxHits
    /\ LET n == hits[q.client] + 1
           step == Pipeline(q, n)
       IN  /\ req' = [req EXCEPT ![r] = q]
           /\ hits' = IF ReachesLimiter(q) THEN [hits EXCEPT ![q.client] = n] ELSE hits
           /\ IF step.await
              THEN /\ pc' = [pc EXCEPT ![r] = "invoking"]
                   /\ sentArgs' = [sentArgs EXCEPT ![r] = Append(@, CallArgs(q.body))]
                   /\ UNCHANGED <<res, sent>>
              ELSE /\ pc' = [pc EXCEPT ![r] = "responded"]
                   /\ res' = [res EXCEPT ![r] = step.res]
                   /\ sent' = [sent EXCEPT ![r] = @ + 1]
                   /\ UNCHANGED sentArgs
    /\ UNCHANGED <<entry, outcome>>

\* A variant of the continuation whose response object is shared by the
\* requests in flight: the answer goes out on the highest slot that awaits.
ResolveShared(r, gen) ==
    /\ pc[r] = "invoking"
    /\ LET t == CHOOSE x \in Reqs :
                    /\ pc[x] = "invoking"
                    /\ \A y \in Reqs : pc[y] = "invoking" => y <= x
       IN  /\ outcome' = [outcome EXCEPT ![r] = Resolved(gen)]
           /\ res' = [res EXCEPT ![t] =
                         IF NoText(gen) THEN CatchResponse(NoTextError)
                         ELSE SuccessResponse(gen)]
           /\ sent' = [sent EXCEPT ![t] = @ + 1]
           /\ pc' = [pc EXCEPT ![t] = "responded"]
    /\ UNCHANGED <<entry, hits, req, sentArgs>>

\* The awaited call resolves with gen: the check for text, then the success
\* response or the thrown error's catch.
Resolve(r, gen) ==
    /\ pc[r] = "invoking"
    /\ outcome' = [outcome EXCEPT ![r] = Resolved(gen)]
    /\ res' = [res EXCEPT ![r] =
                  IF NoText(gen) THEN CatchResponse(NoTextError) ELSE SuccessResponse(gen)]
    /\ sent' = [sent EXCEPT ![r] = @ + 1]
    /\ pc' = [pc EXCEPT ![r] = "responded"]
    /\ UNCHANGED <<entry, hits, req, sentArgs>>

\* A variant of the catch block that calls the upstream a second time before
\* it gives up.
RejectRetry(r, e) ==
    /\ pc[r] = "invoking"
    /\ IF Len(sentArgs[r]) < 2
       THEN /\ sentArgs' = [sentArgs EXCEPT ![r] = Append(@, CallArgs(req[r].body))]
            /\ UNCHANGED <<outcome, res, sent, pc>>
       ELSE /\ outcome' = [outcome EXCEPT ![r] = Rejected(e)]
            /\ res' = [res EXCEPT ![r] = CatchResponse(e)]
            /\ sent' = [sent EXCEPT ![r] = @ + 1]
            /\ pc' = [pc EXCEPT ![r] = "responded"]
            /\ UNCHANGED sentArgs
    /\ UNCHANGED <<entry, hits, req>>

\* The awaited call rejects with e: the catch block.
Reject(r, e) ==
    /\ pc[r] = "invoking"
    /\ outcome' = [outcome EXCEPT ![r] = Rejected(e)]
    /\ res' = [res EXCEPT ![r] = CatchResponse(e)]
    /\ sent' = [sent EXCEPT ![r] = @ + 1]
    /\ pc' = [pc EXCEPT ![r] = "responded"]
    /\ UNCHANGED <<entry, hits, req, sentArgs>>

\* The response has gone out and the request's objects are dropped: nothing of
\* a request outlives its request/response cycle.
Close(r) ==
    /\ pc[r] = "responded"
    /\ pc' = [pc EXCEPT ![r] = "idle"]
    /\ req' = [req EXCEPT ![r] = NoReq]
    /\ sentArgs' = [sentArgs EXCEPT ![r] = <<>>]
    /\ outcome' = [outcome EXCEPT ![r] = Pending]
    /\ res' = [res EXCEPT ![r] = NoRes]
    /\ sent' = [sent EXCEPT ![r] = 0]
    /\ UNCHANGED <<entry, hits>>

\* windowMs has passed: the limiter's store forgets its counts.
ResetWindow ==
    /\ \E c \in Clients : hits[c] > 0
    /\ hits' = [c \in Clients |-> 0]
    /\ UNCHANGED <<entry, pc, req, sentArgs, outcome, res, sent>>

\* ---------------------------------------------------------- specifications
\* Spec: a client that waits for each response before its next request, and
\* health probes that may also arrive while an upstream call is pending; every
\* kind of request, the limiter's whole window.
AllIdle == \A r \in Reqs : pc[r] = "idle"

NoneResponded == \A r \in Reqs : pc[r] # "responded"

Next ==
    \/ \E r \in Reqs, q \in Requests : (AllIdle \/ (IsHealth(q) /\ NoneResponded)) /\ Arrive(r, q)
    \/ \E r \in Reqs, gen \in Generated : Resolve(r, gen)
    \/ \E r \in Reqs, e \in Errors : Reject(r, e)
    \/ \E r \in Reqs : Close(r)
    \/ ResetWindow

Spec == Init /\ [][Next]_vars

\* SpecConc: up to MaxReqs chat requests in flight at once, their upstream
\* calls settling in any order.
NextConc ==
    \/ \E r \in Reqs, q \in ConcRequests : Arrive(r, q)
    \/ \E r \in Reqs, gen \in ConcGenerated : Resolve(r, gen)
    \/ \E r \in Reqs, e \in ConcErrors : Reject(r, e)

SpecConc == Init /\ [][NextConc]_vars

\* ------------------------------------------------------------------ claims
\* The request in slot r reached the chat handler.
ChatHandled(r) == pc[r] = "invoking" \/ (pc[r] = "responded" /\ res[r].by = "chat")

\* The number of hf.textGeneration calls made for the request in slot r.
Calls(r) == Len(sentArgs[r])

\* C1: a chat request whose message is absent, null or not a string is
\* answered 400 "Message is required and must be a string", and
\* hf.textGeneration is not called for it.
C1_NonStringRejected ==
    \A r \in Reqs :
        (ChatHandled(r) /\ req[r].body.message.t # "string") =>
            /\ pc[r] = "responded"
            /\ res[r].status = 400
            /\ res[r].error = ValidationMsg
            /\ Calls(r) = 0

C1_Witness ==
    \E r \in Reqs :
        /\ pc[r] = "responded" /\ res[r].by = "chat"
        /\ req[r].body.message = JNumber(<<"4", "2">>)
        /\ res[r].status = 400 /\ Calls(r) = 0

C3_SuccessEnvelope ==
    \A r \in Reqs :
        ( /\ outcome[r].kind = "resolved"
          /\ ~outcome[r].gen.null
          /\ outcome[r].gen.generated_text.t = "string"
          /\ Len(outcome[r].gen.generated_text.v) > 0
          /\ req[r].body.image_url = JUndefined ) =>
            /\ pc[r] = "responded"
            /\ res[r].status = 200
            /\ res[r].error = None
            /\ res[r].message = outcome[r].gen.generated_text
            /\ Calls(r) = 1
            /\ res[r].model = sentArgs[r][1].model
            /\ res[r].model = ModelId
            /\ res[r].timestamp

C3_Witness ==
    \E r \in Reqs :
        /\ req[r].body = [message |-> JString(<<"h", "i">>), image_url |-> JUndefined]
        /\ outcome[r].kind = "resolved"
        /\ res[r].status = 200
        /\ res[r].message = JString(<<"t", "1">>)

\* C4: when the upstream call resolves with null, or with a result whose
\* generated_text is missing or empty, the answer is never a 200: it is 500
\* with details "No response generated from the model".
C4_NoTextIs500 ==
    \A r \in Reqs :
        ( /\ outcome[r].kind = "resolved"
          /\ \/ outcome[r].gen.null
             \/ outcome[r].gen.generated_text = JUndefined
             \/ outcome[r].gen.generated_text = JString(<<>>) ) =>
            /\ pc[r] = "responded"
            /\ res[r].status = 500
            /\ res[r].error = ProcessingMsg
            /\ res[r].details = NoTextMsg

C4_Witness ==
    \E r \in Reqs :
        /\ outcome[r].kind = "resolved"
        /\ ~outcome[r].gen.null
        /\ outcome[r].gen.generated_text = JString(<<>>)
        /\ res[r].status = 500 /\ res[r].details = NoTextMsg

Whitespace == {" ", "\t", "\n"}

\* x.trim() === ''  (what "consists only of whitespace" means for a string)
IsBlank(x) == x.t = "string" /\ \A i \in 1..Len(x.v) : x.v[i] \in Whitespace

\* C5 as claimed: a chat request whose message is the empty string or only
\* whitespace is answered 400, and hf.textGeneration is not called for it.
C5_BlankRejected ==
    \A r \in Reqs :
        (ChatHandled(r) /\ IsBlank(req[r].body.message)) =>
            /\ pc[r] = "responded"
            /\ res[r].status = 400
            /\ Calls(r) = 0

\* C6 as claimed: every GET /health is answered 200 with status "ok" and a
\* timestamp, however many requests its client has made before.
C6_HealthAlways200 ==
    \A r \in Reqs :
        (pc[r] = "responded" /\ IsHealth(req[r])) =>
            /\ res[r].status = 200
            /\ res[r].state = "ok"
            /\ res[r].timestamp

\* C6 as amended: a GET /health that arrives while its client has made fewer
\* than 100 requests in the limiter's current window is answered 200 with
\* status "ok" and a timestamp; one that arrives after 100 or more is
\* answered 429 by the limiter and does not reach the route.
C6_HealthWithinLimit ==
    [][\A r \in Reqs :
          (pc[r] = "idle" /\ pc'[r] # "idle" /\ IsHealth(req'[r])) =>
              /\ pc'[r] = "responded"
              /\ IF hits[req'[r].client] < max
                 THEN /\ res'[r].status = 200
                      /\ res'[r].state = "ok"
                      /\ res'[r].timestamp
                 ELSE /\ res'[r].status = 429
                      /\ res'[r].by = "limiter"]_vars

\* The client's 100th request of the window is a GET /health, answered 200
\* while a chat request's upstream call is pending.
C6_Witness ==
    \E r, c \in Reqs :
        /\ pc[r] = "responded" /\ IsHealth(req[r])
        /\ hits[req[r].client] = max
        /\ res[r].status = 200 /\ res[r].state = "ok"
        /\ pc[c] = "invoking"

\* The routes the application defines.
DefinedRoute(q) ==
    \/ q.method = "GET" /\ q.path = "/health"
    \/ q.method = "POST" /\ q.path = "/api/chat"

\* C7 as claimed: in each entry point, a request that the middleware lets
\* through and that matches no defined route is answered 404 with the JSON
\* body {error: "Route not found", timestamp}.
C7_UndefinedRoute404Json ==
    \A r \in Reqs :
        ( /\ pc[r] = "responded"
          /\ res[r].by \notin {"cors", "errorHandler", "limiter"}
          /\ ~DefinedRoute(req[r]) ) =>
            /\ res[r].status = 404
            /\ res[r].error = RouteNotFoundMsg
            /\ res[r].timestamp

\* One step of the request in slot r, as the one-pass state machine allows.
OnePassStep(r) ==
    \/ /\ pc[r] = "idle"
       /\ \/ UNCHANGED <<pc[r], sentArgs[r], sent[r]>>
          \/ pc'[r] = "responded" /\ Calls(r)' = 0 /\ sent'[r] = 1 /\ res'[r].status = 400
          \/ pc'[r] = "invoking" /\ Calls(r)' = 1 /\ sent'[r] = 0
    \/ /\ pc[r] = "invoking"
       /\ Calls(r) = 1 /\ sent[r] = 0
       /\ \/ UNCHANGED <<pc[r], req[r], sentArgs[r], outcome[r], res[r], sent[r]>>
          \/ /\ pc'[r] = "responded" /\ sent'[r] = 1
             /\ UNCHANGED <<req[r], sentArgs[r]>>
             /\ outcome'[r].kind \in {"resolved", "rejected"}
    \/ /\ pc[r] = "responded"
       /\ sent[r] = 1 /\ Calls(r) <= 1
       /\ UNCHANGED <<pc[r], req[r], sentArgs[r], outcome[r], res[r], sent[r]>>

\* C8: every chat request makes one pass: from received it is either
\* rejected (a 400, no upstream call) or invokes the upstream once; the
\* invocation settles once, and one response is sent; after the response the
\* request takes no further step.  No path calls the upstream twice or sends
\* two responses.
C8_OnePass == [][\A r \in Reqs : OnePassStep(r)]_vars

C8_Witness ==
    \E r \in Reqs :
        /\ pc[r] = "responded"
        /\ outcome[r].kind = "rejected"
        /\ Calls(r) = 1 /\ sent[r] = 1

\* C9: with several chat requests in flight and their upstream calls settling
\* in any order, each response is a function of the request's own body and own
\* upstream outcome: a 200 carries the text its own call resolved with, an
\* upstream error's details are its own error's message, the call was made
\* with its own message, and two requests with equal bodies and outcomes get
\* equal responses whatever was handled before or in between.
C9_OwnOutcomeOnly ==
    /\ \A r \in Reqs :
           /\ Calls(r) >= 1 => sentArgs[r][1].inputs = req[r].body.message
           /\ pc[r] = "responded" =>
                  /\ res[r].status = 200 =>
                         /\ outcome[r].kind = "resolved"
                         /\ res[r].message = outcome[r].gen.generated_text
                  /\ outcome[r].kind = "rejected" =>
                         res[r].details = outcome[r].error.message
                  /\ outcome[r].kind = "pending" => res[r].status = 400
           /\ pc[r] = "invoking" => outcome[r].kind = "pending" /\ res[r] = NoRes
    /\ \A r1, r2 \in Reqs :
           ( /\ pc[r1] = "responded" /\ pc[r2] = "responded"
             /\ req[r1].body = req[r2].body
             /\ outcome[r1] = outcome[r2] ) => res[r1] = res[r2]

C9_Witness ==
    \E r1, r2 \in Reqs :
        /\ r1 # r2
        /\ pc[r1] = "responded" /\ res[r1].status = 200
        /\ res[r1].message = JString(<<"t", "1">>)
        /\ pc[r2] = "responded"
        /\ outcome[r2].kind = "rejected" /\ res[r2].details = "rate limited"
        /\ req[r1].body = req[r2].body

\* C10: image_url is ignored: two chat requests with the same message, whatever
\* their image_url (absent, a string, not a string), get the same validation
\* decision, make the same upstream call (model, inputs, parameters) and,
\* given the same upstream outcome, get the same status, message and model.
C10_ImageUrlIgnored ==
    \A r1, r2 \in Reqs :
        ( /\ ChatHandled(r1) /\ ChatHandled(r2)
          /\ req[r1].body.message = req[r2].body.message ) =>
            /\ sentArgs[r1] = sentArgs[r2]
            /\ (Calls(r1) = 0) <=> (pc[r1] = "responded" /\ res[r1].status = 400
                                     /\ res[r1].error = ValidationMsg)
            /\ ( /\ pc[r1] = "responded" /\ pc[r2] = "responded"
                 /\ outcome[r1] = outcome[r2] ) =>
                   /\ res[r1].status = res[r2].status
                   /\ res[r1].message = res[r2].message
                   /\ res[r1].model = res[r2].model

C10_Witness ==
    \E r1, r2 \in Reqs :
        /\ req[r1].body = [message |-> JString(<<"h", "i">>), image_url |-> JUndefined]
        /\ req[r2].body = [message |-> JString(<<"h", "i">>),
                           image_url |-> JString(<<"u">>)]
        /\ pc[r1] = "responded" /\ pc[r2] = "responded"
        /\ outcome[r1] = outcome[r2]
        /\ res[r1].status = 200 /\ res[r2].status = 200

=============================================================================
